---- MODULE Spec2Model ----
(***************************************************************************)
(* A model of the labyrinth package: the generic Graph with its            *)
(* traversals, the Grid / Maze with its wall state, the depth-first and    *)
(* Prim's maze generators, the event dispatcher, the maze solver, the      *)
(* TreeSet, and Kruskal's and Wilson's generators as specified.            *)
(***************************************************************************)
EXTENDS Integers, Sequences, FiniteSets, TLC

(***************************************************************************)
(* Bounds of the model.                                                    *)
(***************************************************************************)
\* mazes have at most MaxCells cells (width * height <= MaxCells)
MaxCells == 6
\* Maze.open_wall is called by hand, on a maze built with no generator,
\* until MaxCarved walls are open
MaxCarved == 2
\* vertices of the stand-alone Graph are drawn from 1..MaxVertex
MaxVertex == 3
\* number of mutating Graph calls made before a traversal is started
MaxOps == 3
\* TreeSet nodes are numbered 1..MaxNodes
MaxNodes == 4

VARIABLES
    \* ---- a stand-alone Graph object and one traversal of it ----
    adjacencies,    \* Graph._adjacencies: registered vertex -> set of vertices
    bidirectional,  \* Graph._bidirectional
    nops,           \* number of mutating calls made so far
    result,         \* how the last call ended: "ok" or the error raised
    tkind,          \* "none", "bfs" or "dfs": the traversal being run
    tstatus,        \* "idle", "running", "done" or the error raised
    tstart,         \* start_vertex of the traversal
    queue,          \* breadth_first_search: the deque
    stack,          \* depth_first_search: the list used as a stack
    visited,        \* the traversal's visited map (the keys mapped to True)
    visits,         \* the vertices visit_fn was invoked on, in order
    \* ---- a Maze, the generator run on it and the solver ----
    width,          \* Grid._width
    height,         \* Grid._height
    graph,          \* Grid._graph: the full lattice of cells
    generator,      \* "dfs", "prims" or "none": the generator given to Maze()
    event_listener, \* "none", or "registered" for a listener that may raise
    run,            \* the generation: the cells' open_walls, the generator's
                    \* fields and the locals of the traversal it runs
    plain,          \* the same generation with no listener registered
    solver,         \* the MazeSolver: its fields, the locals of the traversal
                    \* it runs and the path it returns
    \* ---- single calls made on a Maze, and TreeSet nodes ----
    call,           \* the last call made: its name, its arguments, how it
                    \* ended, what it returned, the state it was made in
    parent          \* TreeSet.parent of every node (0 stands for None)

gvars == <<adjacencies, bidirectional, nops, result, tkind, tstatus, tstart,
           queue, stack, visited, visits>>

mvars == <<width, height, graph, generator, event_listener, run, plain, solver>>

cvars == <<call, parent>>

vars == <<gvars, mvars, cvars>>

(***************************************************************************)
(* Helpers: iteration orders of a Python set.                              *)
(***************************************************************************)
\* every order in which iterating over the set S may yield its elements
Orders(S) ==
    {s \in [1..Cardinality(S) -> S] :
        \A i, j \in 1..Cardinality(S) : s[i] = s[j] => i = j}

SeqToSet(s) == {s[i] : i \in 1..Len(s)}

NoDuplicates(s) == \A i, j \in 1..Len(s) : s[i] = s[j] => i = j

\* the registered vertices reachable from `start` along adjacency sets
RECURSIVE ReachFrom(_, _)
ReachFrom(adj, seen) ==
    LET next == seen \cup {n \in DOMAIN adj : \E v \in seen : v \in DOMAIN adj /\ n \in adj[v]}
    IN  IF next = seen THEN seen ELSE ReachFrom(adj, next)

Reachable(adj, start) == ReachFrom(adj, {start})

(***************************************************************************)
(* Graph (graph.py).  An adjacency map is a function whose domain is the   *)
(* set of registered vertices.  A call returns the new map and how it      *)
(* ended.                                                                  *)
(***************************************************************************)
EmptyAdjacencies == <<>>

\* _ensure_vertices: TRUE when no ValueError is raised
EnsureVertices(adj, vs) == vs \subseteq DOMAIN adj

\* neighbors: the adjacency set of a registered vertex
Neighbors(adj, vertex) ==
    IF ~EnsureVertices(adj, {vertex})
    THEN [result |-> "ValueError", value |-> {}]
    ELSE [result |-> "ok", value |-> adj[vertex]]

AddVertex(adj, v) ==
    IF v \in DOMAIN adj THEN adj ELSE adj @@ (v :> {})

\* add_edge that registers a missing vertex instead of rejecting it
AddEdgeRegistering(adj, bidir, left, right) ==
    LET a0 == AddVertex(AddVertex(adj, left), right)
        a1 == [a0 EXCEPT ![left] = @ \cup {right}]
        a2 == IF bidir THEN [a1 EXCEPT ![right] = @ \cup {left}] ELSE a1
    IN  [adj |-> a2, result |-> "ok"]

AddEdge(adj, bidir, left, right) ==
    IF ~EnsureVertices(adj, {left, right})
    THEN [adj |-> adj, result |-> "ValueError"]
    ELSE LET a1 == [adj EXCEPT ![left] = @ \cup {right}]
             a2 == IF bidir THEN [a1 EXCEPT ![right] = @ \cup {left}] ELSE a1
         IN  [adj |-> a2, result |-> "ok"]

\* set.remove raises KeyError when the element is missing; the first removal
\* has then already been made
RemoveEdge(adj, bidir, left, right) ==
    IF ~EnsureVertices(adj, {left, right})
    THEN [adj |-> adj, result |-> "ValueError"]
    ELSE IF right \notin adj[left]
    THEN [adj |-> adj, result |-> "KeyError"]
    ELSE LET a1 == [adj EXCEPT ![left] = @ \ {right}]
         IN  IF ~bidir THEN [adj |-> a1, result |-> "ok"]
             ELSE IF left \notin a1[right]
             THEN [adj |-> a1, result |-> "KeyError"]
             ELSE [adj |-> [a1 EXCEPT ![right] = @ \ {left}], result |-> "ok"]

\* the loop of remove_vertex over the live set adj[vertex], yielded in `order`:
\* a neighbour that does not list the vertex raises KeyError; removing the
\* vertex from its own set (a self-loop) changes the set being iterated, and
\* the iterator's next step raises RuntimeError.  In both cases the removals
\* made so far stay and the vertex is not deleted.
RECURSIVE RemoveVertexLoop(_, _, _, _)
RemoveVertexLoop(adj, vertex, order, i) ==
    IF i > Len(order)
    THEN [adj |-> [x \in (DOMAIN adj) \ {vertex} |-> adj[x]], result |-> "ok"]
    ELSE LET neighbor == order[i]
         IN  IF neighbor \notin DOMAIN adj \/ vertex \notin adj[neighbor]
             THEN [adj |-> adj, result |-> "KeyError"]
             ELSE LET a1 == [adj EXCEPT ![neighbor] = @ \ {vertex}]
                  IN  IF neighbor = vertex
                      THEN [adj |-> a1, result |-> "RuntimeError"]
                      ELSE RemoveVertexLoop(a1, vertex, order, i + 1)

RemoveVertex(adj, vertex, order) ==
    IF ~EnsureVertices(adj, {vertex})
    THEN [adj |-> adj, result |-> "ValueError"]
    ELSE RemoveVertexLoop(adj, vertex, order, 1)

\* has_edge
HasEdge(adj, left, right) ==
    IF ~EnsureVertices(adj, {left, right})
    THEN [result |-> "ValueError", value |-> FALSE]
    ELSE [result |-> "ok", value |-> right \in adj[left]]

\* the neighbours a traversal appends after visiting `vertex`: those not yet
\* visited, in the order the set yields them
PushOrders(adj, vertex, seen) ==
    Orders({n \in Neighbors(adj, vertex).value : n \notin seen})

(***************************************************************************)
(* TreeSet (utils/collections.py).  The nodes are numbers from 1 on, `par` *)
(* maps every node to its parent, and 0 stands for None.  A call returns   *)
(* how it ended and what it returned.                                      *)
(***************************************************************************)
\* TreeSet.root: the recursion follows the parent links; when they form a
\* cycle it never meets None and ends with RecursionError
RECURSIVE RootFrom(_, _, _)
RootFrom(par, node, depth) ==
    IF par[node] = 0 THEN [result |-> "ok", value |-> node]
    ELSE IF depth > Cardinality(DOMAIN par)
    THEN [result |-> "RecursionError", value |-> 0]
    ELSE RootFrom(par, par[node], depth + 1)

Root(par, node) == RootFrom(par, node, 1)

\* TreeSet.is_connected
IsConnected(par, self, tree) ==
    LET left == Root(par, self)
        right == Root(par, tree)
    IN  IF left.result # "ok" THEN [result |-> left.result, value |-> FALSE]
        ELSE IF right.result # "ok" THEN [result |-> right.result, value |-> FALSE]
        ELSE [result |-> "ok", value |-> left.value = right.value]

\* merge that hangs the given node, not its root, under this node
MergeNode(par, self, tree) ==
    [parent |-> [par EXCEPT ![tree] = self], result |-> "ok"]

\* TreeSet.merge: tree.root.parent = self
Merge(par, self, tree) ==
    LET root == Root(par, tree)
    IN  IF root.result # "ok" THEN [parent |-> par, result |-> root.result]
        ELSE [parent |-> [par EXCEPT ![root.value] = self], result |-> "ok"]

(***************************************************************************)
(* Direction (maze.py) and Grid (grid.py).  A cell is <<row, column>>.     *)
(***************************************************************************)
Direction == {"N", "S", "E", "W"}

\* Direction.dx: the change in column
Dx(d) == CASE d = "N" -> 0 [] d = "S" -> 0 [] d = "E" -> 1 [] d = "W" -> -1

\* dy with the rows counted upwards
DyUpwards(d) == CASE d = "N" -> 1 [] d = "S" -> -1 [] d = "E" -> 0 [] d = "W" -> 0

\* Direction.dy: the change in row
Dy(d) == CASE d = "N" -> -1 [] d = "S" -> 1 [] d = "E" -> 0 [] d = "W" -> 0

\* Direction.opposite
Opposite(d) == CHOOSE e \in Direction : <<Dx(e), Dy(e)>> = <<-Dx(d), -Dy(d)>>

\* between that takes the direction from the signs of dx and dy, as
\* MazeSolver.junction_direction does
BetweenBySign(start_cell, end_cell) ==
    LET dx == end_cell[2] - start_cell[2]
        dy == end_cell[1] - start_cell[1]
    IN  IF dx = 0 /\ dy = 0 THEN "StopIteration"
        ELSE IF dy = 0 THEN (IF dx > 0 THEN "E" ELSE "W")
        ELSE IF dy > 0 THEN "S" ELSE "N"

\* Direction.between: next() over the matching directions raises
\* StopIteration when there is none
Between(start_cell, end_cell) ==
    LET dx == end_cell[2] - start_cell[2]
        dy == end_cell[1] - start_cell[1]
        found == {d \in Direction : <<Dx(d), Dy(d)>> = <<dx, dy>>}
    IN  IF found = {} THEN "StopIteration" ELSE CHOOSE d \in found : TRUE

\* get_cell that tests nothing and reads the dictionary of cells
GetCellUnchecked(w, h, row, column) ==
    IF 0 <= row /\ row < h /\ 0 <= column /\ column < w
    THEN [result |-> "ok", value |-> <<row, column>>]
    ELSE [result |-> "KeyError", value |-> "None"]

\* get_cell that tests the upper limits only, so that a negative row or
\* column reaches the dictionary of cells
GetCellUpperOnly(w, h, row, column) ==
    IF ~(row < h) THEN [result |-> "ValueError", value |-> "None"]
    ELSE IF ~(column < w) THEN [result |-> "ValueError", value |-> "None"]
    ELSE IF row < 0 \/ column < 0 THEN [result |-> "KeyError", value |-> "None"]
    ELSE [result |-> "ok", value |-> <<row, column>>]

\* Grid.get_cell, which Grid.__getitem__, Maze.__getitem__ and Maze.get_cell
\* pass their arguments to
GetCell(w, h, row, column) ==
    IF ~(0 <= row /\ row < h) THEN [result |-> "ValueError", value |-> "None"]
    ELSE IF ~(0 <= column /\ column < w) THEN [result |-> "ValueError", value |-> "None"]
    ELSE [result |-> "ok", value |-> <<row, column>>]

\* Grid.neighbors, which Maze.neighbors passes its arguments to
GridNeighbors(adj, w, h, row, column) ==
    LET cell == GetCell(w, h, row, column)
    IN  IF cell.result # "ok" THEN [result |-> cell.result, value |-> {}]
        ELSE Neighbors(adj, cell.value)

\* Grid.__init__: the cells are created row by row, each joined to the cell
\* above it and the cell to its left
RECURSIVE GridBuild(_, _, _, _)
GridBuild(adj, w, h, k) ==
    IF w <= 0 \/ h <= 0 \/ k >= w * h THEN adj
    ELSE LET row == k \div w
             column == k % w
             cell == <<row, column>>
             a0 == AddVertex(adj, cell)
             a1 == IF row > 0 THEN AddEdge(a0, TRUE, cell, <<row - 1, column>>).adj ELSE a0
             a2 == IF column > 0 THEN AddEdge(a1, TRUE, cell, <<row, column - 1>>).adj ELSE a1
         IN  GridBuild(a2, w, h, k + 1)

GridGraph(w, h) == GridBuild(EmptyAdjacencies, w, h, 0)

\* open_wall that opens the wall of the start cell only
OpenWallOneSided(walls, start_cell, end_cell) ==
    LET direction == Between(start_cell, end_cell)
    IN  IF direction = "StopIteration"
        THEN [walls |-> walls, result |-> "StopIteration"]
        ELSE [walls |-> [walls EXCEPT ![start_cell] = @ \cup {direction}],
              result |-> "ok"]

\* open_wall that opens the same direction on both cells
OpenWallSameDirection(walls, start_cell, end_cell) ==
    LET direction == Between(start_cell, end_cell)
    IN  IF direction = "StopIteration"
        THEN [walls |-> walls, result |-> "StopIteration"]
        ELSE [walls |-> [walls EXCEPT ![start_cell] = @ \cup {direction},
                                      ![end_cell] = @ \cup {direction}],
              result |-> "ok"]

\* Maze.open_wall on the map cell -> open_walls
OpenWall(walls, start_cell, end_cell) ==
    LET direction == Between(start_cell, end_cell)
    IN  IF direction = "StopIteration"
        THEN [walls |-> walls, result |-> "StopIteration"]
        ELSE [walls |-> [walls EXCEPT ![start_cell] = @ \cup {direction},
                                      ![end_cell] = @ \cup {Opposite(direction)}],
              result |-> "ok"]

(***************************************************************************)
(* EventDispatcher (utils/event.py).                                       *)
(***************************************************************************)
\* on_state_changed: how the call ends when the listener (if any) raises or
\* not: "returned", or "caught" when the listener's exception was caught and
\* reported.  An exception leaving the call would be "raised".
OnStateChangedUncaught(listener, raises) ==
    IF listener = "none" THEN "returned"
    ELSE IF raises THEN "raised"
    ELSE "returned"

OnStateChanged(listener, raises) ==
    IF listener = "none" THEN "returned"
    ELSE IF raises THEN "caught"
    ELSE "returned"

(***************************************************************************)
(* The generators (generate.py).  A generation is a record: walls is the   *)
(* map cell -> open_walls; prev_cells belongs to the depth-first           *)
(* generator, included_cells and frontier to Prim's; stack and visited are *)
(* the locals of Graph.depth_first_search; iterations counts the passes    *)
(* through the generator's loop; caught says whether an exception of the   *)
(* listener was caught; events is the list of updates a recording         *)
(* listener has kept.  A listener is "none" (no listener), "registered"    *)
(* (one that keeps nothing) or "recording" (one that appends every update  *)
(* it is called with to a list); the last two may raise.  The operators    *)
(* read the grid graph of the maze.                                        *)
(***************************************************************************)
NewRun(w, h) ==
    [walls |-> [c \in DOMAIN GridGraph(w, h) |-> {}],
     status |-> "new",
     prev_cells |-> <<>>,
     stack |-> <<>>,
     visited |-> {},
     included_cells |-> {},
     frontier |-> {},
     iterations |-> 0,
     caught |-> FALSE,
     events |-> <<>>]

\* MazeUpdate: end_cell is None for CELL_MARKED, and new_frontier_cells,
\* None for WALL_REMOVED, is the empty set there.  The update holds the
\* cells themselves, so that the listener sees their open_walls as they are
\* when it is called: open_walls is the map cell -> open_walls at that time
MazeUpdate(type, start_cell, end_cell, new_frontier_cells, walls) ==
    [type |-> type, start_cell |-> start_cell, end_cell |-> end_cell,
     new_frontier_cells |-> new_frontier_cells, open_walls |-> walls]

\* the list of the recording listener after on_state_changed was given
\* one more update: the listener appends it before it returns or raises
Received(events, listener, state) ==
    IF listener = "recording" THEN Append(events, state) ELSE events

\* on_wall_removed with the two cells of the update exchanged
OnWallRemovedReversed(events, listener, start_cell, end_cell, walls) ==
    Received(events, listener,
             MazeUpdate("WALL_REMOVED", end_cell, start_cell, {}, walls))

\* on_wall_removed: the update the dispatcher is given
OnWallRemoved(events, listener, start_cell, end_cell, walls) ==
    Received(events, listener,
             MazeUpdate("WALL_REMOVED", start_cell, end_cell, {}, walls))

\* on_cell_marked: the update the dispatcher is given
OnCellMarked(events, listener, cell, new_frontier_cells, walls) ==
    Received(events, listener,
             MazeUpdate("CELL_MARKED", cell, "None", new_frontier_cells, walls))

\* cell_visitor with the test on the neighbour's open walls inverted
CellVisitorInverted(r, cell, listener, raises) ==
    LET carve == cell \in DOMAIN r.prev_cells
        ow == IF carve THEN OpenWall(r.walls, r.prev_cells[cell], cell)
              ELSE [walls |-> r.walls, result |-> "ok"]
        sent == IF carve THEN OnStateChanged(listener, raises) ELSE "returned"
        walled == {n \in graph[cell] : ow.walls[n] # {}}
        prev == [n \in (DOMAIN r.prev_cells) \cup walled |->
                    IF n \in walled THEN cell ELSE r.prev_cells[n]]
    IN  IF ow.result # "ok" THEN [r EXCEPT !.status = ow.result]
        ELSE IF sent = "raised" THEN [r EXCEPT !.walls = ow.walls, !.status = "aborted"]
        ELSE [r EXCEPT !.walls = ow.walls,
                       !.prev_cells = prev,
                       !.caught = @ \/ sent = "caught",
                       !.events = IF carve
                                  THEN OnWallRemoved(@, listener, r.prev_cells[cell],
                                                     cell, ow.walls)
                                  ELSE @]

\* cell_visitor that records the predecessor of every neighbour the
\* traversal has not visited, open walls or not
CellVisitorUnvisited(r, cell, listener, raises) ==
    LET carve == cell \in DOMAIN r.prev_cells
        ow == IF carve THEN OpenWall(r.walls, r.prev_cells[cell], cell)
              ELSE [walls |-> r.walls, result |-> "ok"]
        sent == IF carve THEN OnStateChanged(listener, raises) ELSE "returned"
        unvisited == {n \in graph[cell] : n \notin r.visited \cup {cell}}
        prev == [n \in (DOMAIN r.prev_cells) \cup unvisited |->
                    IF n \in unvisited THEN cell ELSE r.prev_cells[n]]
    IN  IF ow.result # "ok" THEN [r EXCEPT !.status = ow.result]
        ELSE IF sent = "raised" THEN [r EXCEPT !.walls = ow.walls, !.status = "aborted"]
        ELSE [r EXCEPT !.walls = ow.walls,
                       !.prev_cells = prev,
                       !.caught = @ \/ sent = "caught",
                       !.events = IF carve
                                  THEN OnWallRemoved(@, listener, r.prev_cells[cell],
                                                     cell, ow.walls)
                                  ELSE @]

\* RandomDepthFirstSearchGenerator.cell_visitor
CellVisitor(r, cell, listener, raises) ==
    LET carve == cell \in DOMAIN r.prev_cells
        ow == IF carve THEN OpenWall(r.walls, r.prev_cells[cell], cell)
              ELSE [walls |-> r.walls, result |-> "ok"]
        sent == IF carve THEN OnStateChanged(listener, raises) ELSE "returned"
        blank == {n \in graph[cell] : ow.walls[n] = {}}
        prev == [n \in (DOMAIN r.prev_cells) \cup blank |->
                    IF n \in blank THEN cell ELSE r.prev_cells[n]]
    IN  IF ow.result # "ok" THEN [r EXCEPT !.status = ow.result]
        ELSE IF sent = "raised" THEN [r EXCEPT !.walls = ow.walls, !.status = "aborted"]
        ELSE [r EXCEPT !.walls = ow.walls,
                       !.prev_cells = prev,
                       !.caught = @ \/ sent = "caught",
                       !.events = IF carve
                                  THEN OnWallRemoved(@, listener, r.prev_cells[cell],
                                                     cell, ow.walls)
                                  ELSE @]

\* generate_maze of the depth-first generator up to the loop of
\* Graph.depth_first_search, started at the cell maze[0, 0]
DfsGenerateBegin(r) ==
    LET start == GetCell(width, height, 0, 0)
    IN  IF start.result # "ok" THEN [r EXCEPT !.status = start.result]
        ELSE IF ~EnsureVertices(graph, {start.value}) THEN [r EXCEPT !.status = "ValueError"]
        ELSE [r EXCEPT !.status = "running", !.stack = <<start.value>>, !.visited = {}]

\* one iteration of the loop of Graph.depth_first_search with cell_visitor
\* as visit_fn; order is the order in which the neighbours are pushed
DfsGenerateStep(r, order, listener, raises) ==
    LET cell == r.stack[Len(r.stack)]
        rest == SubSeq(r.stack, 1, Len(r.stack) - 1)
        popped == [r EXCEPT !.stack = rest, !.iterations = @ + 1]
    IN  IF cell \in r.visited THEN popped
        ELSE LET v == CellVisitor(popped, cell, listener, raises)
             IN  IF v.status # "running" THEN v
                 ELSE [v EXCEPT !.visited = @ \cup {cell}, !.stack = rest \o order]

\* mark that adds every neighbour to the frontier, open walls or not
MarkAnyNeighbor(r, cell, listener, raises) ==
    LET new_frontier_cells == graph[cell]
        sent == OnStateChanged(listener, raises)
        marked == [r EXCEPT !.included_cells = @ \cup {cell},
                            !.frontier = @ \cup new_frontier_cells,
                            !.events = OnCellMarked(@, listener, cell,
                                                    new_frontier_cells, r.walls)]
    IN  IF sent = "raised" THEN [marked EXCEPT !.status = "aborted"]
        ELSE [marked EXCEPT !.caught = @ \/ sent = "caught"]

\* PrimsGenerator.mark
Mark(r, cell, listener, raises) ==
    LET new_frontier_cells == {n \in graph[cell] : r.walls[n] = {}}
        sent == OnStateChanged(listener, raises)
        marked == [r EXCEPT !.included_cells = @ \cup {cell},
                            !.frontier = @ \cup new_frontier_cells,
                            !.events = OnCellMarked(@, listener, cell,
                                                    new_frontier_cells, r.walls)]
    IN  IF sent = "raised" THEN [marked EXCEPT !.status = "aborted"]
        ELSE [marked EXCEPT !.caught = @ \/ sent = "caught"]

\* random.randrange(n): the values it may return, or the ValueError it
\* raises when the range is empty
Randrange(n) ==
    IF n <= 0 THEN {[result |-> "ValueError", value |-> 0]}
    ELSE {[result |-> "ok", value |-> i] : i \in 0..(n - 1)}

\* generate_maze of Prim's generator up to its loop: row and column are
\* what randrange(height) and randrange(width) gave
PrimsGenerateBegin(r, row, column, listener, raises) ==
    LET start_cell == GetCell(width, height, row.value, column.value)
    IN  IF row.result # "ok" THEN [r EXCEPT !.status = row.result]
        ELSE IF column.result # "ok" THEN [r EXCEPT !.status = column.result]
        ELSE IF start_cell.result # "ok" THEN [r EXCEPT !.status = start_cell.result]
        ELSE Mark([r EXCEPT !.status = "running"], start_cell.value, listener, raises)

\* the included neighbours among which next() takes the first one the set
\* yields
IncludedNeighbors(r, cell) == {n \in graph[cell] : n \in r.included_cells}

\* the loop of generate_maze with the cell read from the frontier and left
\* in it
PrimsGenerateStepKeeping(r, next_cell, neighbor, listener, raises1, raises2) ==
    LET popped == [r EXCEPT !.iterations = @ + 1]
        ow == OpenWall(r.walls, next_cell, neighbor)
        sent == OnStateChanged(listener, raises1)
        opened == [popped EXCEPT !.walls = ow.walls,
                                 !.caught = @ \/ sent = "caught",
                                 !.events = OnWallRemoved(@, listener, next_cell,
                                                          neighbor, ow.walls)]
    IN  IF neighbor = "StopIteration" THEN [popped EXCEPT !.status = "StopIteration"]
        ELSE IF ow.result # "ok" THEN [popped EXCEPT !.status = ow.result]
        ELSE IF sent = "raised" THEN [opened EXCEPT !.status = "aborted"]
        ELSE Mark(opened, next_cell, listener, raises2)

\* one iteration of the loop of PrimsGenerator.generate_maze: next_cell is
\* the cell frontier.pop() returns, neighbor the included neighbour taken
PrimsGenerateStep(r, next_cell, neighbor, listener, raises1, raises2) ==
    LET popped == [r EXCEPT !.frontier = @ \ {next_cell}, !.iterations = @ + 1]
        ow == OpenWall(r.walls, next_cell, neighbor)
        sent == OnStateChanged(listener, raises1)
        opened == [popped EXCEPT !.walls = ow.walls,
                                 !.caught = @ \/ sent = "caught",
                                 !.events = OnWallRemoved(@, listener, next_cell,
                                                          neighbor, ow.walls)]
    IN  IF neighbor = "StopIteration" THEN [popped EXCEPT !.status = "StopIteration"]
        ELSE IF ow.result # "ok" THEN [popped EXCEPT !.status = ow.result]
        ELSE IF sent = "raised" THEN [opened EXCEPT !.status = "aborted"]
        ELSE Mark(opened, next_cell, listener, raises2)

\* the loop has ended and generate() returns
GenerateEnd(r) == [r EXCEPT !.status = "done"]

(***************************************************************************)
(* MazeSolver (solve.py).  The solver is a record: junction_graph and      *)
(* prev_cells are its fields, stack and visited the locals of              *)
(* Graph.depth_first_search, status where it stands or how solve() ended,  *)
(* path what solve() returned.  The Maze members it calls that maze.py     *)
(* does not define (start_cell, end_cell, neighbor) follow the             *)
(* specification: the start is (0, 0), the end (height-1, width-1), and    *)
(* neighbor steps one cell in a direction.                                 *)
(***************************************************************************)
NewSolver ==
    [status |-> "idle",
     junction_graph |-> EmptyAdjacencies,
     prev_cells |-> <<>>,
     stack |-> <<>>,
     visited |-> {},
     path |-> <<>>]

\* Maze.start_cell
MazeStartCell == <<0, 0>>

\* Maze.end_cell
MazeEndCell == <<height - 1, width - 1>>

\* Maze.neighbor(cell, direction): the cell one step away, None outside the grid
MazeNeighbor(cell, direction) ==
    LET n == <<cell[1] + Dy(direction), cell[2] + Dx(direction)>>
    IN  IF n \in DOMAIN graph THEN n ELSE "None"

\* is_corridor_cell that takes any two open walls for a corridor
IsCorridorCellAnyTwo(walls, cell) == Cardinality(walls[cell]) = 2

\* MazeSolver.is_corridor_cell
IsCorridorCell(walls, cell) ==
    /\ Cardinality(walls[cell]) = 2
    /\ \E d \in walls[cell] : walls[cell] = {d, Opposite(d)}

\* MazeSolver.junction_direction
JunctionDirection(start_junction, end_junction) ==
    LET dx == end_junction[2] - start_junction[2]
        dy == end_junction[1] - start_junction[1]
    IN  IF dy = 0 THEN (IF dx > 0 THEN "E" ELSE "W")
        ELSE (IF dy > 0 THEN "S" ELSE "N")

\* the while loop of construct_junction_graph's cell_visitor: step through
\* corridor cells; is_corridor_cell(None) raises AttributeError
RECURSIVE ThroughCorridor(_, _, _)
ThroughCorridor(walls, neighbor, direction) ==
    IF neighbor = "None" THEN "AttributeError"
    ELSE IF IsCorridorCell(walls, neighbor)
    THEN ThroughCorridor(walls, MazeNeighbor(neighbor, direction), direction)
    ELSE neighbor

\* the three junction_graph calls of cell_visitor, for each cell reached
RECURSIVE AddJunctions(_, _, _)
AddJunctions(jg, cell, ends) ==
    IF ends = {} THEN jg
    ELSE LET neighbor == CHOOSE e \in ends : TRUE
             a1 == AddVertex(AddVertex(jg, cell), neighbor)
         IN  AddJunctions(AddEdge(a1, TRUE, cell, neighbor).adj, cell, ends \ {neighbor})

\* cell_visitor that adds every cell it visits to the junction graph
JunctionCellVisitorAddsAll(sv, walls, cell) ==
    LET seen == sv.visited \cup {cell}
        ends == {ThroughCorridor(walls, n, Between(cell, n)) :
                    n \in {m \in graph[cell] :
                             Between(cell, m) \in walls[cell] /\ m \notin seen}}
    IN  IF "AttributeError" \in ends THEN [sv EXCEPT !.status = "AttributeError"]
        ELSE [sv EXCEPT !.junction_graph = AddJunctions(AddVertex(@, cell), cell, ends)]

\* construct_junction_graph's cell_visitor; its own visited map holds the
\* cells the traversal has visited and the cell being visited
JunctionCellVisitor(sv, walls, cell) ==
    LET seen == sv.visited \cup {cell}
        ends == {ThroughCorridor(walls, n, Between(cell, n)) :
                    n \in {m \in graph[cell] :
                             Between(cell, m) \in walls[cell] /\ m \notin seen}}
    IN  IF "AttributeError" \in ends THEN [sv EXCEPT !.status = "AttributeError"]
        ELSE [sv EXCEPT !.junction_graph = AddJunctions(@, cell, ends)]

\* solve_maze and construct_junction_graph up to the loop of the traversal
\* of the grid
SolveBegin(sv) ==
    [sv EXCEPT !.status = "junctions",
               !.prev_cells = <<>>,
               !.junction_graph = EmptyAdjacencies,
               !.stack = <<MazeStartCell>>,
               !.visited = {}]

\* one iteration of Graph.depth_first_search over the grid graph with
\* construct_junction_graph's cell_visitor
JunctionStep(sv, walls, order) ==
    LET cell == sv.stack[Len(sv.stack)]
        popped == [sv EXCEPT !.stack = SubSeq(sv.stack, 1, Len(sv.stack) - 1)]
    IN  IF cell \in sv.visited THEN popped
        ELSE LET v == JunctionCellVisitor(popped, walls, cell)
             IN  IF v.status # "junctions" THEN v
                 ELSE [v EXCEPT !.visited = @ \cup {cell}, !.stack = @ \o order]

\* the junction graph is returned and junction_graph.depth_first_search is
\* entered at the start cell, which must be one of its vertices
SearchBegin(sv) ==
    IF ~EnsureVertices(sv.junction_graph, {MazeStartCell})
    THEN [sv EXCEPT !.status = "ValueError"]
    ELSE [sv EXCEPT !.status = "searching",
                    !.stack = <<MazeStartCell>>,
                    !.visited = {}]

\* MazeSolver.is_in_solution
RECURSIVE IsInSolution(_, _)
IsInSolution(prev, cell) ==
    IF cell \in DOMAIN prev THEN IsInSolution(prev, prev[cell])
    ELSE cell = MazeStartCell

\* the neighbours for which the test of junction_visitor succeeds; the
\* first of them that the set yields becomes the cell's predecessor
SolutionNeighbors(sv, walls, cell) ==
    {n \in sv.junction_graph[cell] :
        /\ JunctionDirection(cell, n) \in walls[cell]
        /\ IsInSolution(sv.prev_cells, n)}

\* MazeSolver.junction_visitor; chosen is the neighbour taken, or None
JunctionVisitor(sv, cell, chosen) ==
    IF chosen = "None" THEN sv
    ELSE [sv EXCEPT !.prev_cells =
             [c \in (DOMAIN sv.prev_cells) \cup {cell} |->
                 IF c = cell THEN chosen ELSE sv.prev_cells[c]]]

\* one iteration of Graph.depth_first_search over the junction graph with
\* junction_visitor
SearchStep(sv, chosen, order) ==
    LET cell == sv.stack[Len(sv.stack)]
        popped == [sv EXCEPT !.stack = SubSeq(sv.stack, 1, Len(sv.stack) - 1)]
    IN  IF cell \in sv.visited THEN popped
        ELSE [JunctionVisitor(popped, cell, chosen) EXCEPT
                 !.visited = @ \cup {cell}, !.stack = @ \o order]

\* dict.get
Get(prev, cell) == IF cell \in DOMAIN prev THEN prev[cell] ELSE "None"

Reverse(s) == [i \in 1..Len(s) |-> s[Len(s) + 1 - i]]

\* the inner loop of solve_maze that fills in a corridor
RECURSIVE FillCorridor(_, _, _, _)
FillCorridor(path, neighbor, cell, direction) ==
    IF neighbor = cell \/ neighbor = "None" THEN path
    ELSE FillCorridor(Append(path, neighbor), MazeNeighbor(neighbor, direction),
                      cell, direction)

\* the outer loop of solve_maze.  Direction.between(prev_cell, None) raises
\* AttributeError; between raises StopIteration for cells that are not
\* adjacent, so that its result is never None
RECURSIVE SolvePath(_, _, _, _)
SolvePath(prev, path, prev_cell, cell) ==
    IF path[Len(path)] = MazeStartCell
    THEN [status |-> "ok", path |-> Reverse(path)]
    ELSE IF cell = "None"
    THEN [status |-> "AttributeError", path |-> <<>>]
    ELSE LET between == Between(prev_cell, cell)
         IN  IF between = "StopIteration"
             THEN [status |-> "StopIteration", path |-> <<>>]
             ELSE LET filled ==
                          IF between = "None"
                          THEN FillCorridor(path,
                                   MazeNeighbor(prev_cell, JunctionDirection(prev_cell, cell)),
                                   cell, JunctionDirection(prev_cell, cell))
                          ELSE path
                  IN  SolvePath(prev, Append(filled, cell), cell, Get(prev, cell))

\* solve_maze after the traversal of the junction graph
SolveEnd(sv) ==
    LET r == SolvePath(sv.prev_cells, <<MazeEndCell>>, MazeEndCell,
                       Get(sv.prev_cells, MazeEndCell))
    IN  [sv EXCEPT !.status = r.status, !.path = r.path]

(***************************************************************************)
(* The stand-alone Graph: construction, the mutating calls, a traversal.   *)
(***************************************************************************)
Vertex == 1..MaxVertex

\* no call has been recorded and no TreeSet exists
NoCall == [op |-> "none", args |-> <<>>, result |-> "none", value |-> "none",
           before |-> <<>>]

NoCalls == call = NoCall /\ parent = <<>>

\* Graph(vertices, None, bidirectional): every given vertex is added, no edge
GraphInit ==
    /\ \E vs \in SUBSET Vertex : adjacencies = [v \in vs |-> {}]
    /\ bidirectional \in BOOLEAN
    /\ nops = 0
    /\ result = "ok"
    /\ tkind = "none"
    /\ tstatus = "idle"
    /\ tstart = 0
    /\ queue = <<>>
    /\ stack = <<>>
    /\ visited = {}
    /\ visits = <<>>
    /\ width = 1 /\ height = 1
    /\ graph = GridGraph(1, 1)
    /\ generator = "none"
    /\ event_listener = "none"
    /\ run = NewRun(1, 1)
    /\ plain = run
    /\ solver = NewSolver
    /\ NoCalls

Mutating == tstatus = "idle" /\ nops < MaxOps

TraversalUnchanged ==
    UNCHANGED <<tkind, tstatus, tstart, queue, stack, visited, visits, mvars, cvars>>

GraphAddVertex ==
    \E v \in Vertex :
        /\ Mutating
        /\ adjacencies' = AddVertex(adjacencies, v)
        /\ result' = "ok"
        /\ nops' = nops + 1
        /\ UNCHANGED bidirectional
        /\ TraversalUnchanged

GraphRemoveVertex ==
    \E v \in Vertex :
        \E order \in (IF v \in DOMAIN adjacencies THEN Orders(adjacencies[v]) ELSE {<<>>}) :
            LET r == RemoveVertex(adjacencies, v, order)
            IN  /\ Mutating
                /\ adjacencies' = r.adj
                /\ result' = r.result
                /\ nops' = nops + 1
                /\ UNCHANGED bidirectional
                /\ TraversalUnchanged

GraphAddEdge ==
    \E left, right \in Vertex :
        LET r == AddEdge(adjacencies, bidirectional, left, right)
        IN  /\ Mutating
            /\ adjacencies' = r.adj
            /\ result' = r.result
            /\ nops' = nops + 1
            /\ UNCHANGED bidirectional
            /\ TraversalUnchanged

GraphRemoveEdge ==
    \E left, right \in Vertex :
        LET r == RemoveEdge(adjacencies, bidirectional, left, right)
        IN  /\ Mutating
            /\ adjacencies' = r.adj
            /\ result' = r.result
            /\ nops' = nops + 1
            /\ UNCHANGED bidirectional
            /\ TraversalUnchanged

\* neighbors(v) and has_edge(left, right): only how the call ended is kept
GraphNeighbors ==
    \E v \in Vertex :
        /\ tstatus = "idle"
        /\ result' = Neighbors(adjacencies, v).result
        /\ UNCHANGED <<adjacencies, bidirectional, nops>>
        /\ TraversalUnchanged

GraphHasEdge ==
    \E left, right \in Vertex :
        /\ tstatus = "idle"
        /\ result' = HasEdge(adjacencies, left, right).result
        /\ UNCHANGED <<adjacencies, bidirectional, nops>>
        /\ TraversalUnchanged

\* breadth_first_search / depth_first_search up to the loop: the start vertex
\* is checked, the visited map is empty and the worklist holds the start
StartTraversal ==
    \E kind \in {"bfs", "dfs"}, start \in Vertex :
        /\ tstatus = "idle"
        /\ tkind' = kind
        /\ tstart' = start
        /\ visited' = {}
        /\ visits' = <<>>
        /\ IF EnsureVertices(adjacencies, {start})
           THEN /\ tstatus' = "running"
                /\ queue' = IF kind = "bfs" THEN <<start>> ELSE <<>>
                /\ stack' = IF kind = "dfs" THEN <<start>> ELSE <<>>
           ELSE /\ tstatus' = "ValueError"
                /\ UNCHANGED <<queue, stack>>
        /\ UNCHANGED <<adjacencies, bidirectional, nops, result, mvars, cvars>>

\* one iteration of the while loop of breadth_first_search
BfsStep ==
    /\ tkind = "bfs" /\ tstatus = "running" /\ queue # <<>>
    /\ LET vertex == Head(queue)
       IN  IF vertex \in visited
           THEN /\ queue' = Tail(queue)
                /\ UNCHANGED <<visited, visits, tstatus>>
           ELSE /\ visits' = Append(visits, vertex)
                /\ visited' = visited \cup {vertex}
                /\ IF Neighbors(adjacencies, vertex).result = "ok"
                   THEN /\ \E order \in PushOrders(adjacencies, vertex, visited') :
                               queue' = Tail(queue) \o order
                        /\ UNCHANGED tstatus
                   ELSE /\ queue' = Tail(queue)
                        /\ tstatus' = "ValueError"
    /\ UNCHANGED <<adjacencies, bidirectional, nops, result, tkind, tstart, stack,
                   mvars, cvars>>

\* one iteration of the while loop of depth_first_search
DfsStep ==
    /\ tkind = "dfs" /\ tstatus = "running" /\ stack # <<>>
    /\ LET vertex == stack[Len(stack)]
           rest == SubSeq(stack, 1, Len(stack) - 1)
       IN  IF vertex \in visited
           THEN /\ stack' = rest
                /\ UNCHANGED <<visited, visits, tstatus>>
           ELSE /\ visits' = Append(visits, vertex)
                /\ visited' = visited \cup {vertex}
                /\ IF Neighbors(adjacencies, vertex).result = "ok"
                   THEN /\ \E order \in PushOrders(adjacencies, vertex, visited') :
                               stack' = rest \o order
                        /\ UNCHANGED tstatus
                   ELSE /\ stack' = rest
                        /\ tstatus' = "ValueError"
    /\ UNCHANGED <<adjacencies, bidirectional, nops, result, tkind, tstart, queue,
                   mvars, cvars>>

\* the worklist is empty: the traversal returns
TraversalReturn ==
    /\ tstatus = "running"
    /\ queue = <<>> /\ stack = <<>>
    /\ tstatus' = "done"
    /\ UNCHANGED <<adjacencies, bidirectional, nops, result, tkind, tstart,
                   queue, stack, visited, visits, mvars, cvars>>

GraphNext ==
    \/ GraphAddVertex
    \/ GraphRemoveVertex
    \/ GraphAddEdge
    \/ GraphRemoveEdge
    \/ GraphNeighbors
    \/ GraphHasEdge
    \/ StartTraversal
    \/ BfsStep
    \/ DfsStep
    \/ TraversalReturn

GraphSpec == GraphInit /\ [][GraphNext]_vars

(***************************************************************************)
(* The Maze: Maze(width, height, generator) builds the grid and runs the   *)
(* generator, one loop iteration per step.                                 *)
(***************************************************************************)
Sizes == {wh \in (1..MaxCells) \X (1..MaxCells) : wh[1] * wh[2] <= MaxCells}

\* widths and heights of grids with no cell, which range() builds without
\* complaint; they are given to Maze() together with a generator
EmptySizes ==
    {wh \in ((-1)..MaxCells) \X ((-1)..MaxCells) : wh[1] <= 0 \/ wh[2] <= 0}

\* a Graph that is never touched, for the behaviours of the maze
GraphIdle ==
    /\ adjacencies = EmptyAdjacencies
    /\ bidirectional = TRUE
    /\ nops = 0
    /\ result = "ok"
    /\ tkind = "none"
    /\ tstatus = "idle"
    /\ tstart = 0
    /\ queue = <<>>
    /\ stack = <<>>
    /\ visited = {}
    /\ visits = <<>>

\* Maze.__init__ after Grid(width, height), with a fresh generator
MazeInit ==
    /\ generator \in {"dfs", "prims", "none"}
    /\ \E wh \in Sizes \cup (IF generator = "none" THEN {} ELSE EmptySizes) :
           width = wh[1] /\ height = wh[2]
    /\ graph = GridGraph(width, height)
    /\ event_listener \in {"none", "registered", "recording"}
    /\ run = NewRun(width, height)
    /\ plain = run
    /\ solver = NewSolver

\* the mazes whose listener, if any, keeps nothing
Init == MazeInit /\ event_listener # "recording" /\ GraphIdle /\ NoCalls

MazeFixed ==
    UNCHANGED <<width, height, graph, generator, event_listener, solver, cvars>>

\* whether the listener raises on an event: only a registered one can
Raises == IF event_listener = "none" THEN {FALSE} ELSE BOOLEAN

\* Maze.__init__ with generator=None: nothing is generated
NoGenerator ==
    /\ generator = "none" /\ run.status = "new"
    /\ run' = GenerateEnd(run)
    /\ plain' = GenerateEnd(plain)
    /\ MazeFixed /\ UNCHANGED gvars

\* Maze.open_wall(start_cell, end_cell) called on a maze built with no
\* generator, before it is solved
OpenWallCall ==
    /\ generator = "none" /\ run.status = "done" /\ solver.status = "idle"
    /\ Cardinality({c \in DOMAIN graph : run.walls[c] # {}}) < 2 * MaxCarved
    /\ \E start_cell \in DOMAIN graph, end_cell \in DOMAIN graph :
           /\ run' = [run EXCEPT !.walls = OpenWall(@, start_cell, end_cell).walls]
           /\ plain' = [plain EXCEPT !.walls = OpenWall(@, start_cell, end_cell).walls]
    /\ MazeFixed /\ UNCHANGED gvars

DfsGenerateStart ==
    /\ generator = "dfs" /\ run.status = "new"
    /\ run' = DfsGenerateBegin(run)
    /\ plain' = DfsGenerateBegin(plain)
    /\ MazeFixed /\ UNCHANGED gvars

DfsGenerate ==
    /\ generator = "dfs" /\ run.status = "running" /\ run.stack # <<>>
    /\ LET cell == run.stack[Len(run.stack)]
       IN  \E order \in (IF cell \in run.visited THEN {<<>>}
                         ELSE PushOrders(graph, cell, run.visited \cup {cell})),
              raises \in Raises :
               /\ run' = DfsGenerateStep(run, order, event_listener, raises)
               /\ plain' = DfsGenerateStep(plain, order, "none", FALSE)
    /\ MazeFixed /\ UNCHANGED gvars

DfsGenerateReturn ==
    /\ generator = "dfs" /\ run.status = "running" /\ run.stack = <<>>
    /\ run' = GenerateEnd(run)
    /\ plain' = GenerateEnd(plain)
    /\ MazeFixed /\ UNCHANGED gvars

PrimsGenerateStart ==
    /\ generator = "prims" /\ run.status = "new"
    /\ \E row \in Randrange(height), column \in Randrange(width), raises \in Raises :
           /\ run' = PrimsGenerateBegin(run, row, column, event_listener, raises)
           /\ plain' = PrimsGenerateBegin(plain, row, column, "none", FALSE)
    /\ MazeFixed /\ UNCHANGED gvars

PrimsGenerate ==
    /\ generator = "prims" /\ run.status = "running" /\ run.frontier # {}
    /\ \E next_cell \in run.frontier, raises1 \in Raises, raises2 \in Raises :
           \E neighbor \in (IF IncludedNeighbors(run, next_cell) = {} THEN {"StopIteration"}
                            ELSE IncludedNeighbors(run, next_cell)) :
               /\ run' = PrimsGenerateStep(run, next_cell, neighbor,
                                           event_listener, raises1, raises2)
               /\ plain' = PrimsGenerateStep(plain, next_cell, neighbor,
                                             "none", FALSE, FALSE)
    /\ MazeFixed /\ UNCHANGED gvars

PrimsGenerateReturn ==
    /\ generator = "prims" /\ run.status = "running" /\ run.frontier = {}
    /\ run' = GenerateEnd(run)
    /\ plain' = GenerateEnd(plain)
    /\ MazeFixed /\ UNCHANGED gvars

SolverOnly ==
    UNCHANGED <<width, height, graph, generator, event_listener, run, plain, cvars>>

\* MazeSolver().solve(maze) on the maze as construction left it
Solve ==
    /\ run.status = "done" /\ solver.status = "idle"
    /\ solver' = SolveBegin(solver)
    /\ SolverOnly /\ UNCHANGED gvars

\* as ConstructJunctionGraph, but is_corridor_cell empties the visited cell's
\* own open_walls instead of a copy
ConstructJunctionGraphConsuming ==
    /\ solver.status = "junctions" /\ solver.stack # <<>>
    /\ LET cell == solver.stack[Len(solver.stack)]
       IN  /\ \E order \in (IF cell \in solver.visited THEN {<<>>}
                            ELSE PushOrders(graph, cell, solver.visited \cup {cell})) :
                  solver' = JunctionStep(solver, run.walls, order)
           /\ run' = [run EXCEPT !.walls[cell] = {}]
    /\ UNCHANGED <<width, height, graph, generator, event_listener, plain, cvars>>
    /\ UNCHANGED gvars

ConstructJunctionGraph ==
    /\ solver.status = "junctions" /\ solver.stack # <<>>
    /\ LET cell == solver.stack[Len(solver.stack)]
       IN  \E order \in (IF cell \in solver.visited THEN {<<>>}
                         ELSE PushOrders(graph, cell, solver.visited \cup {cell})) :
               solver' = JunctionStep(solver, run.walls, order)
    /\ SolverOnly /\ UNCHANGED gvars

SearchJunctionGraph ==
    /\ solver.status = "junctions" /\ solver.stack = <<>>
    /\ solver' = SearchBegin(solver)
    /\ SolverOnly /\ UNCHANGED gvars

VisitJunction ==
    /\ solver.status = "searching" /\ solver.stack # <<>>
    /\ LET cell == solver.stack[Len(solver.stack)]
           fresh == cell \notin solver.visited
       IN  \E order \in (IF fresh
                         THEN PushOrders(solver.junction_graph, cell,
                                         solver.visited \cup {cell})
                         ELSE {<<>>}),
              chosen \in (IF fresh /\ SolutionNeighbors(solver, run.walls, cell) # {}
                          THEN SolutionNeighbors(solver, run.walls, cell)
                          ELSE {"None"}) :
               solver' = SearchStep(solver, chosen, order)
    /\ SolverOnly /\ UNCHANGED gvars

ReturnPath ==
    /\ solver.status = "searching" /\ solver.stack = <<>>
    /\ solver' = SolveEnd(solver)
    /\ SolverOnly /\ UNCHANGED gvars

Next ==
    \/ NoGenerator
    \/ OpenWallCall
    \/ DfsGenerateStart
    \/ DfsGenerate
    \/ DfsGenerateReturn
    \/ PrimsGenerateStart
    \/ PrimsGenerate
    \/ PrimsGenerateReturn
    \/ Solve
    \/ ConstructJunctionGraph
    \/ SearchJunctionGraph
    \/ VisitJunction
    \/ ReturnPath

Spec == Init /\ [][Next]_vars

(***************************************************************************)
(* Generation with a listener that records every update it is called with. *)
(***************************************************************************)
EventInit ==
    /\ MazeInit /\ GraphIdle /\ NoCalls
    /\ generator # "none" /\ event_listener = "recording"

EventNext ==
    \/ DfsGenerateStart
    \/ DfsGenerate
    \/ DfsGenerateReturn
    \/ PrimsGenerateStart
    \/ PrimsGenerate
    \/ PrimsGenerateReturn

EventSpec == EventInit /\ [][EventNext]_vars

(***************************************************************************)
(* generate() called a second time on the maze it has generated, by the    *)
(* generator that generated it or by a new one of the same class.  The     *)
(* generator object keeps prev_cells (depth-first) and included_cells and  *)
(* frontier (Prim's) from one generate() to the next; a new generator      *)
(* starts with them empty.  The call is recorded in `call` with the open   *)
(* walls it found.                                                         *)
(***************************************************************************)
RegenerateInit ==
    /\ MazeInit /\ GraphIdle /\ NoCalls
    /\ generator # "none" /\ event_listener = "none"

\* the generator object at the call of generate(): the one that has run, or
\* a new one
Instance(r, instance) ==
    IF instance = "same" THEN [r EXCEPT !.status = "new"]
    ELSE [NewRun(width, height) EXCEPT !.walls = r.walls]

Regenerate ==
    /\ run.status = "done" /\ call.op = "none"
    /\ \E instance \in {"same", "fresh"} :
           /\ run' = Instance(run, instance)
           /\ plain' = Instance(plain, instance)
           /\ call' = [op |-> "generate", args |-> <<instance>>, result |-> "ok",
                       value |-> "None", before |-> run.walls]
    /\ UNCHANGED <<width, height, graph, generator, event_listener, solver, parent>>
    /\ UNCHANGED gvars

RegenerateNext ==
    \/ DfsGenerateStart
    \/ DfsGenerate
    \/ DfsGenerateReturn
    \/ PrimsGenerateStart
    \/ PrimsGenerate
    \/ PrimsGenerateReturn
    \/ Regenerate

RegenerateSpec == RegenerateInit /\ [][RegenerateNext]_vars

(***************************************************************************)
(* Single calls on a Maze built with no generator: get_cell, maze[...],    *)
(* neighbors, open_wall, Direction.between and Direction.opposite, with    *)
(* arguments inside and outside the grid.  Each call is recorded in        *)
(* `call`.                                                                 *)
(***************************************************************************)
\* the row and column numbers the calls are given
Coordinates == (-1)..MaxCells

CallInit ==
    /\ MazeInit /\ GraphIdle /\ NoCalls
    /\ generator = "none" /\ event_listener = "none"

\* the maze is built; the calls that change nothing are the last call of a
\* behaviour, made after any number of open_wall calls
CallReady ==
    /\ generator = "none" /\ run.status = "done" /\ solver.status = "idle"
    /\ call.op \in {"none", "open_wall"}

CallFixed ==
    UNCHANGED <<width, height, graph, generator, event_listener, solver, parent, gvars>>

\* maze.get_cell(row, column) and maze[row, column]
CallGetCell ==
    /\ CallReady
    /\ \E op \in {"get_cell", "getitem"}, row \in Coordinates, column \in Coordinates :
           LET r == GetCell(width, height, row, column)
           IN  call' = [op |-> op, args |-> <<row, column>>, result |-> r.result,
                        value |-> r.value, before |-> run.walls]
    /\ UNCHANGED <<run, plain>> /\ CallFixed

\* maze.neighbors(row, column)
CallNeighbors ==
    /\ CallReady
    /\ \E row \in Coordinates, column \in Coordinates :
           LET r == GridNeighbors(graph, width, height, row, column)
           IN  call' = [op |-> "neighbors", args |-> <<row, column>>, result |-> r.result,
                        value |-> r.value, before |-> run.walls]
    /\ UNCHANGED <<run, plain>> /\ CallFixed

\* Maze.open_wall(start_cell, end_cell) on any two cells of the maze
CallOpenWall ==
    /\ CallReady
    /\ Cardinality({c \in DOMAIN graph : run.walls[c] # {}}) < 2 * MaxCarved
    /\ \E start_cell \in DOMAIN graph, end_cell \in DOMAIN graph :
           LET r == OpenWall(run.walls, start_cell, end_cell)
           IN  /\ call' = [op |-> "open_wall", args |-> <<start_cell, end_cell>>,
                           result |-> r.result, value |-> "None", before |-> run.walls]
               /\ run' = [run EXCEPT !.walls = r.walls]
               /\ plain' = [plain EXCEPT !.walls = r.walls]
    /\ CallFixed

\* Direction.between(start_cell, end_cell) on any two cells of the maze
CallBetween ==
    /\ CallReady
    /\ \E start_cell \in DOMAIN graph, end_cell \in DOMAIN graph :
           LET d == Between(start_cell, end_cell)
           IN  call' = [op |-> "between", args |-> <<start_cell, end_cell>>,
                        result |-> IF d = "StopIteration" THEN d ELSE "ok",
                        value |-> d, before |-> run.walls]
    /\ UNCHANGED <<run, plain>> /\ CallFixed

\* d.opposite
CallOpposite ==
    /\ CallReady
    /\ \E d \in Direction :
           call' = [op |-> "opposite", args |-> <<d>>, result |-> "ok",
                    value |-> Opposite(d), before |-> run.walls]
    /\ UNCHANGED <<run, plain>> /\ CallFixed

CallNext ==
    \/ NoGenerator
    \/ CallGetCell
    \/ CallNeighbors
    \/ CallOpenWall
    \/ CallBetween
    \/ CallOpposite

CallSpec == CallInit /\ [][CallNext]_vars

(***************************************************************************)
(* Claims about generation.                                                *)
(***************************************************************************)
Cells == DOMAIN graph

StartCell == <<0, 0>>

\* the cell next to `cell` in direction d (which may lie outside the grid)
Toward(cell, d) == <<cell[1] + Dy(d), cell[2] + Dx(d)>>

\* the pairs of cells whose common wall is open on both sides
OpenPairs(walls) ==
    {{x[1], Toward(x[1], x[2])} :
        x \in {y \in Cells \X Direction :
                 /\ y[2] \in walls[y[1]]
                 /\ Toward(y[1], y[2]) \in Cells
                 /\ Opposite(y[2]) \in walls[Toward(y[1], y[2])]}}

RECURSIVE SumOver(_, _)
SumOver(f, S) ==
    IF S = {} THEN 0
    ELSE LET x == CHOOSE y \in S : TRUE IN f[x] + SumOver(f, S \ {x})

\* the number of open walls, counted on each side
OpenWallCount(walls) == SumOver([c \in Cells |-> Cardinality(walls[c])], Cells)

\* the graph whose edges are the open walls
OpenGraph(walls) == [c \in Cells |-> {Toward(c, d) : d \in walls[c]} \cap Cells]

Connected(walls) == Reachable(OpenGraph(walls), StartCell) = Cells

\* stripping the cells with at most one open neighbour left, again and
\* again, removes every cell exactly when the open walls form no cycle
RECURSIVE Strips(_, _)
Strips(adj, left) ==
    LET leaves == {c \in left : Cardinality(adj[c] \cap left) <= 1}
    IN  IF left = {} THEN TRUE
        ELSE IF leaves = {} THEN FALSE
        ELSE Strips(adj, left \ leaves)

Acyclic(walls) == Strips(OpenGraph(walls), Cells)

SpanningTree(walls) ==
    /\ Cardinality(OpenPairs(walls)) = width * height - 1
    /\ OpenWallCount(walls) = 2 * (width * height - 1)
    /\ Connected(walls)
    /\ Acyclic(walls)
    /\ width * height > 1 => \A c \in Cells : walls[c] # {}

\* the loop of depth_first_search runs once for the start cell and once for
\* every neighbour pushed, and a cell pushes each of its neighbours at most
\* once
DfsIterationBound == 1 + SumOver([c \in Cells |-> Cardinality(graph[c])], Cells)

\* C1: on a blank width x height maze with width, height >= 1 the
\* depth-first generator raises no
\* error, its loop ends within DfsIterationBound iterations, and when it has
\* ended exactly width*height - 1 wall pairs are open and the open walls
\* form a connected, acyclic graph over all cells.
C1_DfsGeneratesSpanningTree ==
    (generator = "dfs" /\ width >= 1 /\ height >= 1) =>
        /\ run.status \in {"new", "running", "done"}
        /\ (run.status = "running" /\ run.stack # <<>>) => run.iterations < DfsIterationBound
        /\ run.status = "done" => SpanningTree(run.walls)

C1_Witness ==
    /\ generator = "dfs" /\ run.status = "done"
    /\ width >= 2 /\ height >= 2
    /\ \E c \in Cells : Cardinality(run.walls[c]) >= 3

\* C2: on a blank width x height maze with width, height >= 1 Prim's
\* generator, for every seed cell
\* and every pop order, raises no error, leaves its loop after exactly
\* width*height - 1 iterations, and then exactly width*height - 1 wall pairs
\* are open, the open walls form a connected, acyclic graph and every cell
\* is included.
C2_PrimsGeneratesSpanningTree ==
    (generator = "prims" /\ width >= 1 /\ height >= 1) =>
        /\ run.status \in {"new", "running", "done"}
        /\ run.status = "running" =>
              /\ run.iterations = Cardinality(run.included_cells) - 1
              /\ run.frontier # {} => run.iterations < width * height - 1
              /\ run.frontier = {} => run.iterations = width * height - 1
        /\ run.status = "done" =>
              /\ run.iterations = width * height - 1
              /\ run.included_cells = Cells
              /\ SpanningTree(run.walls)

C2_Witness ==
    /\ generator = "prims" /\ run.status = "done"
    /\ width >= 2 /\ height >= 2
    /\ run.walls[StartCell] = {"S"}

\* C4: in every state of a generation, for every cell a and every direction
\* d open on a, the grid neighbour of a in direction d exists and has the
\* opposite direction open.
C4_WallSymmetry ==
    \A a \in Cells : \A d \in run.walls[a] :
        /\ Toward(a, d) \in Cells
        /\ Opposite(d) \in run.walls[Toward(a, d)]

C4_Witness ==
    /\ run.status = "running"
    /\ \E a \in Cells : Cardinality(run.walls[a]) >= 2

\* C7: on a grid with cells, once the listener has raised, the generation
\* is neither aborted nor
\* changed: it goes on in step with the generation that makes the same
\* choices with no listener registered, with the same open walls and the
\* same generator state, up to its end.
C7_ListenerFailureContained ==
    (event_listener = "registered" /\ run.status # "new"
        /\ width >= 1 /\ height >= 1) =>
        /\ run.status \in {"running", "done"}
        /\ [run EXCEPT !.caught = FALSE] = plain

C7_Witness ==
    /\ run.caught /\ run.status = "done"
    /\ width * height >= 4

\* C15: on a grid with width <= 0 or height <= 0 both generators fail
\* fast: Maze(width, height, generator) ends with ValueError before the
\* generator's loop is entered, and no wall is open.
C15_EmptyGridFailsFast ==
    (generator \in {"dfs", "prims"} /\ (width <= 0 \/ height <= 0)
        /\ run.status # "new") =>
        /\ run.status = "ValueError"
        /\ run.iterations = 0
        /\ \A c \in DOMAIN run.walls : run.walls[c] = {}

C15_Witness ==
    /\ generator = "dfs" /\ width = 0 /\ height >= 1
    /\ run.status = "ValueError"

(***************************************************************************)
(* Claims about the updates a listener receives.                           *)
(***************************************************************************)
\* in the walls the listener sees, the wall between a and b is open on both
\* sides
SeenOpen(walls, a, b) ==
    /\ \E d \in walls[a] : Toward(a, d) = b
    /\ \E d \in walls[b] : Toward(b, d) = a

\* C25: a listener of the depth-first generator receives WALL_REMOVED
\* updates only, one for every wall carved so far and no two for the same
\* wall; when an update arrives its wall is open; the parent of an update
\* is (0,0) or the child of an earlier update, and its child is the child
\* of no earlier update.
C25_DfsUpdates ==
    generator = "dfs" =>
        LET ev == run.events
        IN  /\ \A i \in 1..Len(ev) :
                   /\ ev[i].type = "WALL_REMOVED"
                   /\ SeenOpen(ev[i].open_walls, ev[i].start_cell, ev[i].end_cell)
                   /\ \/ ev[i].start_cell = <<0, 0>>
                      \/ \E j \in 1..(i - 1) : ev[j].end_cell = ev[i].start_cell
                   /\ \A j \in 1..(i - 1) : ev[j].end_cell # ev[i].end_cell
            /\ {{ev[i].start_cell, ev[i].end_cell} : i \in 1..Len(ev)}
                   = OpenPairs(run.walls)
            /\ Len(ev) = Cardinality(OpenPairs(run.walls))

C25_Witness ==
    /\ generator = "dfs" /\ run.status = "done" /\ run.caught
    /\ width >= 2 /\ height >= 2
    /\ Len(run.events) = width * height - 1

\* two cells one step apart
Adjacent(a, b) == \E d \in Direction : Toward(a, d) = b

\* the cells marked by the first i updates
MarkedBy(ev, i) ==
    {ev[j].start_cell : j \in {k \in 1..i : ev[k].type = "CELL_MARKED"}}

\* the cells reported as frontier cells by the first i updates
ReportedBy(ev, i) ==
    UNION {ev[j].new_frontier_cells : j \in {k \in 1..i : ev[k].type = "CELL_MARKED"}}

\* C26: a listener of Prim's generator receives CELL_MARKED for the seed
\* first, and then for every cell f taken from the frontier a WALL_REMOVED
\* between f and a neighbour marked before, followed by CELL_MARKED for f;
\* every cell in the frontier set of a CELL_MARKED is a grid neighbour of
\* the marked cell and is not marked yet; at the end there are width*height
\* CELL_MARKED and width*height - 1 WALL_REMOVED updates.
C26_PrimsUpdates ==
    generator = "prims" =>
        LET ev == run.events
        IN  /\ \A i \in 1..Len(ev) :
                   /\ ev[i].type = (IF i % 2 = 1 THEN "CELL_MARKED" ELSE "WALL_REMOVED")
                   /\ ev[i].type = "WALL_REMOVED" =>
                          /\ i < Len(ev)
                          /\ ev[i + 1].start_cell = ev[i].start_cell
                          /\ ev[i].start_cell \in ReportedBy(ev, i - 1) \ MarkedBy(ev, i - 1)
                          /\ ev[i].end_cell \in MarkedBy(ev, i - 1)
                          /\ Adjacent(ev[i].start_cell, ev[i].end_cell)
                          /\ SeenOpen(ev[i].open_walls, ev[i].start_cell, ev[i].end_cell)
                   /\ ev[i].type = "CELL_MARKED" =>
                          \A c \in ev[i].new_frontier_cells :
                              /\ Adjacent(ev[i].start_cell, c)
                              /\ c \notin MarkedBy(ev, i)
            /\ run.status = "running" => Len(ev) % 2 = 1
            /\ run.status = "done" =>
                   /\ Len(ev) = 2 * width * height - 1
                   /\ Cardinality(MarkedBy(ev, Len(ev))) = width * height

C26_Witness ==
    /\ generator = "prims" /\ run.status = "done" /\ run.caught
    /\ width >= 2 /\ height >= 2
    /\ Len(run.events) = 2 * width * height - 1

\* C27: whenever the loop of Prim's generator is about to test its
\* frontier, every frontier cell has no open wall, is not included, and has
\* an included cell next to it; taking an included neighbour of the cell
\* popped therefore never fails.
C27_PrimsFrontier ==
    generator = "prims" =>
        /\ run.status # "StopIteration"
        /\ run.status = "running" =>
               \A f \in run.frontier :
                   /\ run.walls[f] = {}
                   /\ f \notin run.included_cells
                   /\ \E n \in run.included_cells : Adjacent(f, n)

C27_Witness ==
    /\ generator = "prims" /\ run.status = "running"
    /\ Cardinality(run.frontier) >= 2
    /\ Cardinality(run.included_cells) >= 3

\* C30: in every state of a generation no cell has an open wall towards
\* the outside of the grid: N is open in no cell of row 0, S in none of the
\* last row, W in none of column 0 and E in none of the last column.
C30_BorderClosed ==
    \A c \in Cells :
        /\ "N" \in run.walls[c] => c[1] > 0
        /\ "S" \in run.walls[c] => c[1] < height - 1
        /\ "W" \in run.walls[c] => c[2] > 0
        /\ "E" \in run.walls[c] => c[2] < width - 1

\* a generated maze in which every cell on the border has an open wall
C30_Witness ==
    /\ generator # "none" /\ run.status = "done"
    /\ width >= 2 /\ height >= 2
    /\ \A c \in Cells : run.walls[c] # {}
    /\ \E c \in Cells : Cardinality(run.walls[c]) >= 3

(***************************************************************************)
(* Claims about generating again.                                          *)
(***************************************************************************)
\* C29: generate() called on a maze already generated, by the same
\* generator or a new one, ends without error and leaves every cell's
\* open_walls as it found them; and no step of any generation takes a
\* direction out of a cell's open_walls or changes the grid graph.
C29_RegenerationChangesNothing ==
    /\ [](call.op = "generate" =>
             /\ run.walls = call.before
             /\ run.status \in {"new", "running", "done"})
    /\ [][/\ \A c \in Cells : run.walls[c] \subseteq run'.walls[c]
          /\ graph' = graph]_vars

C29_Witness ==
    /\ call.op = "generate" /\ call.args = <<"same">>
    /\ generator = "dfs" /\ run.status = "done"
    /\ width >= 2 /\ height >= 2
    /\ SpanningTree(run.walls)

(***************************************************************************)
(* Claims about solving.                                                   *)
(***************************************************************************)
SolverEnded == solver.status \notin {"idle", "junctions", "searching"}

Generated == generator \in {"dfs", "prims"} /\ run.status = "done"

\* a sequence of cells from the start to the end, repeating no cell, each
\* next to the one before it, with the wall between them open
ValidPath(path, walls) ==
    /\ Len(path) >= 1
    /\ path[1] = <<0, 0>>
    /\ path[Len(path)] = <<height - 1, width - 1>>
    /\ NoDuplicates(path)
    /\ \A i \in 1..(Len(path) - 1) :
          \E d \in walls[path[i]] : Toward(path[i], d) = path[i + 1]

\* C3: on a maze a generator produced, solve ends with a path from (0,0) to
\* (height-1, width-1) that repeats no cell and whose consecutive cells are
\* adjacent and joined by an open wall.
C3_SolveReturnsPath ==
    (Generated /\ SolverEnded) =>
        /\ solver.status = "ok"
        /\ ValidPath(solver.path, run.walls)

\* C5: on a 1x1 maze generation opens no wall and solve returns [(0,0)].
C5_OneByOne ==
    (width = 1 /\ height = 1 /\ Generated) =>
        /\ run.walls[<<0, 0>>] = {}
        /\ SolverEnded => (solver.status = "ok" /\ solver.path = <<<<0, 0>>>>)

\* C6: when the start cell (0,0) has no open wall, solve ends with an error
\* and returns no path.
C6_SolveFailsOnWalledStart ==
    (SolverEnded /\ run.walls[<<0, 0>>] = {}) =>
        /\ solver.status = "ValueError"
        /\ solver.path = <<>>

C6_Witness ==
    /\ SolverEnded /\ run.walls[<<0, 0>>] = {}
    /\ \E c \in Cells : run.walls[c] # {}

\* C21: solve only reads the maze: no step of solve changes any cell's
\* open_walls or the grid's adjacency graph, whether solve goes on to return
\* a path or to fail.
C21_SolveReadsOnly ==
    [][(solver' # solver) => (run'.walls = run.walls /\ graph' = graph)]_vars

C21_Witness ==
    /\ Generated /\ SolverEnded /\ solver.status # "ok"
    /\ Cardinality(Cells) >= 4
    /\ Cardinality(DOMAIN solver.junction_graph) >= 3

\* construct_junction_graph has returned
JunctionsBuilt == solver.status \notin {"idle", "junctions"}

\* a cell with exactly two open walls, opposite to each other
Corridor(walls, c) == walls[c] = {"N", "S"} \/ walls[c] = {"E", "W"}

\* C22: once the junction graph of a generated maze is built, its vertices
\* are exactly the cells that are not corridor cells.
C22_JunctionVertices ==
    (Generated /\ JunctionsBuilt) =>
        DOMAIN solver.junction_graph = {c \in Cells : ~Corridor(run.walls, c)}

\* the traversal of the junction graph has visited everything it reaches
SearchDone == solver.status = "searching" /\ solver.stack = <<>>

\* p is another cell on the way from v to the start through open walls: p
\* is the start, or v cannot reach the start once p is taken out
OnPathToStart(walls, v, p) ==
    /\ p # v
    /\ \/ p = StartCell
       \/ StartCell \notin
              Reachable([c \in Cells \ {p} |-> OpenGraph(walls)[c] \ {p}], v)

\* the predecessor links as a graph
PrevLinks(prev) == [c \in Cells |-> IF c \in DOMAIN prev THEN {prev[c]} ELSE {}]

\* C23: after the traversal of the junction graph of a generated maze, every
\* vertex but the start has a predecessor that is one of its junction-graph
\* neighbours and lies on its path to the start, the predecessor links lead
\* from every vertex to the start without coming back to a cell, and the
\* start has no predecessor.
C23_PredecessorsLeadToStart ==
    (Generated /\ SearchDone) =>
        LET prev == solver.prev_cells
            jg == solver.junction_graph
        IN  /\ StartCell \notin DOMAIN prev
            /\ \A v \in (DOMAIN jg) \ {StartCell} :
                   /\ v \in DOMAIN prev
                   /\ prev[v] \in jg[v]
                   /\ OnPathToStart(run.walls, v, prev[v])
                   /\ StartCell \in Reachable(PrevLinks(prev), v)
                   /\ v \notin Reachable(PrevLinks(prev), prev[v])

\* c lies on the straight line from a to b, the two ends included
OnLine(a, b, c) ==
    \/ /\ a[1] = b[1] /\ c[1] = a[1]
       /\ \/ (a[2] <= c[2] /\ c[2] <= b[2])
          \/ (b[2] <= c[2] /\ c[2] <= a[2])
    \/ /\ a[2] = b[2] /\ c[2] = a[2]
       /\ \/ (a[1] <= c[1] /\ c[1] <= b[1])
          \/ (b[1] <= c[1] /\ c[1] <= a[1])

\* the direction in which b lies from a, for two cells of one row or column
Heading(a, b) ==
    IF a[1] = b[1] THEN (IF b[2] > a[2] THEN "E" ELSE "W")
    ELSE (IF b[1] > a[1] THEN "S" ELSE "N")

\* C24: every edge of the junction graph joins two different cells of one
\* row or one column; every cell strictly between them is a corridor cell,
\* and every wall on the line from one to the other is open on both sides.
C24_JunctionEdgesStraight ==
    \A a \in DOMAIN solver.junction_graph : \A b \in solver.junction_graph[a] :
        /\ a # b
        /\ a[1] = b[1] \/ a[2] = b[2]
        /\ \A c \in Cells :
               OnLine(a, b, c) =>
                   /\ c \notin {a, b} => Corridor(run.walls, c)
                   /\ c # b => Heading(a, b) \in run.walls[c]
                   /\ c # a => Heading(b, a) \in run.walls[c]

C24_Witness ==
    /\ Generated /\ JunctionsBuilt /\ width >= 2 /\ height >= 2
    /\ \E a \in DOMAIN solver.junction_graph : \E b \in solver.junction_graph[a] :
           \E c \in Cells : OnLine(a, b, c) /\ c \notin {a, b}

(***************************************************************************)
(* Kruskal's generator, as the specification describes it: every grid edge *)
(* is listed once and the list shuffled; every cell gets its own TreeSet;  *)
(* for each edge in shuffled order the wall is opened and the two sets are *)
(* merged when the cells are not connected yet.  The TreeSet of a cell is  *)
(* the node numbered TreeOf(cell); the shuffled order is the order in      *)
(* which the edges are taken from the set of those left.                   *)
(***************************************************************************)
TreeOf(cell) == cell[1] * width + cell[2] + 1

\* every grid edge, once
GridEdges == {{a, b} : a \in DOMAIN graph, b \in DOMAIN graph} \ {{a} : a \in DOMAIN graph}

AllGridEdges == {e \in GridEdges : \E a \in e : e \subseteq {a} \cup graph[a]}

NoEdge == [edge |-> {}, opened |-> FALSE, before |-> <<>>]

NewKruskalsRun(w, h) ==
    [walls |-> [c \in DOMAIN GridGraph(w, h) |-> {}],
     status |-> "new",
     edges |-> {},
     iterations |-> 0,
     caught |-> FALSE,
     last |-> NoEdge]

KruskalsGenerateBegin(r) ==
    [r EXCEPT !.status = "running", !.edges = AllGridEdges]

\* one iteration of the loop over the shuffled edges: (a, b) is the edge
\* taken.  The result is the generation and the parents of the TreeSets.
KruskalsGenerateStep(r, par, a, b, listener, raises) ==
    LET taken == [r EXCEPT !.edges = @ \ {{a, b}}, !.iterations = @ + 1]
        connected == IsConnected(par, TreeOf(a), TreeOf(b))
        ow == OpenWall(r.walls, a, b)
        merged == Merge(par, TreeOf(a), TreeOf(b))
        sent == OnStateChanged(listener, raises)
    IN  IF connected.result # "ok"
        THEN [run |-> [taken EXCEPT !.status = connected.result], parent |-> par]
        ELSE IF connected.value
        THEN [run |-> [taken EXCEPT !.last = [edge |-> {a, b}, opened |-> FALSE,
                                                 before |-> r.walls]],
              parent |-> par]
        ELSE IF ow.result # "ok"
        THEN [run |-> [taken EXCEPT !.status = ow.result], parent |-> par]
        ELSE IF merged.result # "ok"
        THEN [run |-> [taken EXCEPT !.walls = ow.walls, !.status = merged.result],
              parent |-> par]
        ELSE [run |-> [taken EXCEPT !.walls = ow.walls,
                                    !.status = IF sent = "raised" THEN "aborted" ELSE @,
                                    !.caught = @ \/ sent = "caught",
                                    !.last = [edge |-> {a, b}, opened |-> TRUE,
                                              before |-> r.walls]],
              parent |-> merged.parent]

KruskalsInit ==
    /\ GraphIdle
    /\ \E wh \in Sizes : width = wh[1] /\ height = wh[2]
    /\ graph = GridGraph(width, height)
    /\ generator = "kruskals"
    /\ event_listener = "none"
    /\ run = NewKruskalsRun(width, height)
    /\ plain = run
    /\ solver = NewSolver
    /\ call = NoCall
    /\ parent = [n \in 1..(width * height) |-> 0]

KruskalsFixed ==
    UNCHANGED <<width, height, graph, generator, event_listener, plain, solver,
                call, gvars>>

KruskalsGenerateStart ==
    /\ run.status = "new"
    /\ run' = KruskalsGenerateBegin(run)
    /\ UNCHANGED parent /\ KruskalsFixed

KruskalsGenerate ==
    /\ run.status = "running" /\ run.edges # {}
    /\ \E a \in DOMAIN graph, b \in DOMAIN graph, raises \in Raises :
           /\ {a, b} \in run.edges
           /\ LET r == KruskalsGenerateStep(run, parent, a, b, event_listener, raises)
              IN  run' = r.run /\ parent' = r.parent
    /\ KruskalsFixed

KruskalsGenerateReturn ==
    /\ run.status = "running" /\ run.edges = {}
    /\ run' = GenerateEnd(run)
    /\ UNCHANGED parent /\ KruskalsFixed

KruskalsNext ==
    \/ KruskalsGenerateStart
    \/ KruskalsGenerate
    \/ KruskalsGenerateReturn

KruskalsSpec == KruskalsInit /\ [][KruskalsNext]_vars

(***************************************************************************)
(* Wilson's generator, as the specification describes it: one cell is      *)
(* picked and marked visited; while a cell is unvisited, a random walk     *)
(* starts at an unvisited cell, moves from neighbour to neighbour, is      *)
(* truncated back to the first occurrence of a cell it revisits, and       *)
(* stops at the first visited cell; then every edge of the walk is carved  *)
(* and every walked cell marked visited.                                   *)
(***************************************************************************)
NewWilsonsRun(w, h) ==
    [walls |-> [c \in DOMAIN GridGraph(w, h) |-> {}],
     status |-> "new",
     unvisited |-> {},
     walk |-> <<>>,
     iterations |-> 0,
     caught |-> FALSE]

\* the initial tree: the cell picked
WilsonsGenerateBegin(r, start_cell) ==
    [r EXCEPT !.status = "running", !.unvisited = (DOMAIN r.walls) \ {start_cell}]

\* the position of the first occurrence of a cell in a walk, 0 if none
FirstIndex(walk, cell) ==
    IF \E i \in 1..Len(walk) : walk[i] = cell
    THEN CHOOSE i \in 1..Len(walk) :
             walk[i] = cell /\ \A j \in 1..(i - 1) : walk[j] # cell
    ELSE 0

\* one step of the random walk to the neighbour `next_cell`: the loop a
\* revisited cell closes is erased
WilsonsWalkStep(r, next_cell) ==
    LET at == FirstIndex(r.walk, next_cell)
    IN  IF at > 0 THEN [r EXCEPT !.walk = SubSeq(@, 1, at)]
        ELSE [r EXCEPT !.walk = Append(@, next_cell)]

\* every edge along the walk is carved, from its i-th cell on
RECURSIVE CarveWalk(_, _, _)
CarveWalk(walls, walk, i) ==
    IF i >= Len(walk) THEN [walls |-> walls, result |-> "ok"]
    ELSE LET ow == OpenWall(walls, walk[i], walk[i + 1])
         IN  IF ow.result # "ok" THEN [walls |-> ow.walls, result |-> ow.result]
             ELSE CarveWalk(ow.walls, walk, i + 1)

\* the walk has stopped: it is carved and its cells are marked visited
WilsonsCarve(r) ==
    LET carved == CarveWalk(r.walls, r.walk, 1)
    IN  [r EXCEPT !.walls = carved.walls,
                  !.status = IF carved.result = "ok" THEN @ ELSE carved.result,
                  !.unvisited = @ \ SeqToSet(r.walk),
                  !.walk = <<>>,
                  !.iterations = @ + 1]

WilsonsInit ==
    /\ GraphIdle /\ NoCalls
    /\ \E wh \in Sizes : width = wh[1] /\ height = wh[2]
    /\ graph = GridGraph(width, height)
    /\ generator = "wilsons"
    /\ event_listener = "none"
    /\ run = NewWilsonsRun(width, height)
    /\ plain = run
    /\ solver = NewSolver

WilsonsFixed ==
    UNCHANGED <<width, height, graph, generator, event_listener, plain, solver,
                cvars, gvars>>

WilsonsGenerateStart ==
    /\ run.status = "new"
    /\ \E start_cell \in DOMAIN graph : run' = WilsonsGenerateBegin(run, start_cell)
    /\ WilsonsFixed

\* a walk starts at an unvisited cell
WilsonsWalkStart ==
    /\ run.status = "running" /\ run.walk = <<>> /\ run.unvisited # {}
    /\ \E cell \in run.unvisited : run' = [run EXCEPT !.walk = <<cell>>]
    /\ WilsonsFixed

\* the walk has not reached a visited cell: it moves to a neighbour
WilsonsWalk ==
    /\ run.status = "running" /\ run.walk # <<>>
    /\ run.walk[Len(run.walk)] \in run.unvisited
    /\ \E next_cell \in graph[run.walk[Len(run.walk)]] :
           run' = WilsonsWalkStep(run, next_cell)
    /\ WilsonsFixed

\* the walk has reached a visited cell
WilsonsCarveWalk ==
    /\ run.status = "running" /\ run.walk # <<>>
    /\ run.walk[Len(run.walk)] \notin run.unvisited
    /\ run' = WilsonsCarve(run)
    /\ WilsonsFixed

WilsonsGenerateReturn ==
    /\ run.status = "running" /\ run.walk = <<>> /\ run.unvisited = {}
    /\ run' = GenerateEnd(run)
    /\ WilsonsFixed

WilsonsNext ==
    \/ WilsonsGenerateStart
    \/ WilsonsWalkStart
    \/ WilsonsWalk
    \/ WilsonsCarveWalk
    \/ WilsonsGenerateReturn

WilsonsSpec == WilsonsInit /\ [][WilsonsNext]_vars

(***************************************************************************)
(* TreeSet nodes on their own: any node merged into any node, and          *)
(* is_connected asked of any two nodes.                                    *)
(***************************************************************************)
Node == 1..MaxNodes

\* MaxNodes TreeSet() objects, each one a root
TreeInit ==
    /\ GraphIdle
    /\ width = 1 /\ height = 1
    /\ graph = GridGraph(1, 1)
    /\ generator = "none"
    /\ event_listener = "none"
    /\ run = NewRun(1, 1)
    /\ plain = run
    /\ solver = NewSolver
    /\ call = NoCall
    /\ parent = [n \in Node |-> 0]

TreeMerge ==
    \E self \in Node, tree \in Node :
        LET r == Merge(parent, self, tree)
        IN  /\ parent' = r.parent
            /\ call' = [op |-> "merge", args |-> <<self, tree>>, result |-> r.result,
                        value |-> "None", before |-> parent]
            /\ UNCHANGED <<gvars, mvars>>

TreeIsConnected ==
    \E self \in Node, tree \in Node :
        LET r == IsConnected(parent, self, tree)
        IN  /\ call' = [op |-> "is_connected", args |-> <<self, tree>>,
                        result |-> r.result, value |-> r.value, before |-> parent]
            /\ UNCHANGED <<parent, gvars, mvars>>

TreeNext ==
    \/ TreeMerge
    \/ TreeIsConnected

TreeSpec == TreeInit /\ [][TreeNext]_vars

\* self.merge(tree) called as a union-find does: only for two nodes that
\* is_connected tells apart
TreeMergeApart ==
    \E self \in Node, tree \in Node :
        /\ IsConnected(parent, self, tree) = [result |-> "ok", value |-> FALSE]
        /\ LET r == Merge(parent, self, tree)
           IN  /\ parent' = r.parent
               /\ call' = [op |-> "merge", args |-> <<self, tree>>, result |-> r.result,
                           value |-> "None", before |-> parent]
               /\ UNCHANGED <<gvars, mvars>>

ApartNext ==
    \/ TreeMergeApart
    \/ TreeIsConnected

ApartSpec == TreeInit /\ [][ApartNext]_vars

(***************************************************************************)
(* Claims about the TreeSet.                                               *)
(***************************************************************************)
\* is_connected returned True
Joined(par, a, b) == IsConnected(par, a, b) = [result |-> "ok", value |-> TRUE]

\* C17: after a.merge(b), a.is_connected(b) is true and every node that
\* was connected to a or to b before the merge is connected to both; in
\* every state reached by merges is_connected(n, n) is true and
\* is_connected(n, m) = is_connected(m, n), for all nodes n and m.
C17_MergeConnects ==
    /\ call.op = "merge" =>
          LET a == call.args[1]
              b == call.args[2]
          IN  /\ call.result = "ok"
              /\ Joined(parent, a, b)
              /\ \A n \in Node :
                    (Joined(call.before, n, a) \/ Joined(call.before, n, b)) =>
                        (Joined(parent, n, a) /\ Joined(parent, n, b))
    /\ \A n \in Node : Joined(parent, n, n)
    /\ \A n, m \in Node : IsConnected(parent, n, m) = IsConnected(parent, m, n)

\* the nodes with no parent
Roots(par) == {n \in Node : par[n] = 0}

\* C28: when merge is only called on two nodes that are not connected, the
\* parent links never form a cycle (root ends for every node), every merge
\* leaves one root fewer, and two nodes that were connected to neither node
\* of the merge are connected after it exactly when they were before.
C28_MergeApart ==
    /\ \A n \in Node : Root(parent, n).result = "ok"
    /\ call.op = "merge" =>
          LET a == call.args[1]
              b == call.args[2]
              outside == {n \in Node : /\ ~Joined(call.before, n, a)
                                       /\ ~Joined(call.before, n, b)}
          IN  /\ call.result = "ok"
              /\ Cardinality(Roots(parent)) = Cardinality(Roots(call.before)) - 1
              /\ \A n, m \in outside :
                    Joined(parent, n, m) = Joined(call.before, n, m)

\* a merge whose second node was not a root, with a node in neither set
C28_Witness ==
    /\ call.op = "merge"
    /\ call.before[call.args[2]] # 0
    /\ \E n \in Node : /\ ~Joined(call.before, n, call.args[1])
                       /\ ~Joined(call.before, n, call.args[2])

\* the two cells are joined by a chain of open walls
Linked(walls, a, b) == b \in Reachable(OpenGraph(walls), a)

\* C18: Kruskal's generator, whatever the order of the edges, raises no
\* error; it opens the wall of an edge exactly when its two cells were not
\* yet linked by open walls when the edge was processed; when every edge
\* has been processed all cells are in one set, exactly width*height - 1
\* walls are open, and the open walls form a spanning tree of the grid.
C18_KruskalsSpanningTree ==
    generator = "kruskals" =>
        /\ run.status \in {"new", "running", "done"}
        /\ run.status = "running" =>
              run.iterations + Cardinality(run.edges) = Cardinality(AllGridEdges)
        /\ run.last.edge # {} =>
              \A a \in run.last.edge : \A b \in run.last.edge \ {a} :
                  run.last.opened <=> ~Linked(run.last.before, a, b)
        /\ run.status = "done" =>
              /\ \A a \in Cells : \A b \in Cells : Joined(parent, TreeOf(a), TreeOf(b))
              /\ SpanningTree(run.walls)

C18_Witness ==
    /\ generator = "kruskals" /\ run.status = "done"
    /\ width >= 2 /\ height >= 2
    /\ ~run.last.opened

(***************************************************************************)
(* Claims about single calls on a Maze.                                    *)
(***************************************************************************)
Abs(n) == IF n < 0 THEN -n ELSE n

\* |drow| + |dcolumn|
Manhattan(a, b) == Abs(a[1] - b[1]) + Abs(a[2] - b[2])

\* the coordinates inside a width x height grid
InBounds == (0..(height - 1)) \X (0..(width - 1))

\* C12: open_wall(a, b) on cells that are not grid-adjacent (a = b
\* included) ends with an error and leaves every cell's open walls as they
\* were; on adjacent cells it ends normally, adds the direction d from a to
\* b to a's open walls and the opposite of d to b's, and changes no other
\* cell.
C12_OpenWallContract ==
    call.op = "open_wall" =>
        LET a == call.args[1]
            b == call.args[2]
        IN  IF Manhattan(a, b) # 1
            THEN call.result # "ok" /\ run.walls = call.before
            ELSE /\ call.result = "ok"
                 /\ \E d \in Direction :
                       /\ Toward(a, d) = b
                       /\ run.walls[a] = call.before[a] \cup {d}
                       /\ run.walls[b] = call.before[b] \cup {Opposite(d)}
                 /\ \A c \in Cells \ {a, b} : run.walls[c] = call.before[c]

C12_Witness ==
    /\ call.op = "open_wall" /\ call.result = "StopIteration"
    /\ Manhattan(call.args[1], call.args[2]) = 2
    /\ \E c \in Cells : run.walls[c] # {}

\* C13: Direction.between(a, b) raises for every pair of cells with
\* |drow| + |dcolumn| # 1: identical cells, and cells two or more steps
\* apart, on the same row or column or not.
C13_BetweenRejectsNonAdjacent ==
    (call.op = "between" /\ Manhattan(call.args[1], call.args[2]) # 1) =>
        call.result = "StopIteration"

C13_Witness ==
    /\ call.op = "between" /\ call.result = "StopIteration"
    /\ call.args[1][1] = call.args[2][1]
    /\ Manhattan(call.args[1], call.args[2]) >= 3

\* C14: for grid-adjacent cells a and b, between(a, b) is N when b is one
\* row above a, S one row below, E one column to the right, W one column
\* to the left, and its opposite is between(b, a); the opposite of N is S,
\* of S is N, of E is W, of W is E, and the opposite of the opposite of d
\* is d.
C14_BetweenAndOpposite ==
    /\ (call.op = "between" /\ Manhattan(call.args[1], call.args[2]) = 1) =>
          LET a == call.args[1]
              b == call.args[2]
          IN  /\ call.result = "ok"
              /\ b = <<a[1] - 1, a[2]>> => call.value = "N"
              /\ b = <<a[1] + 1, a[2]>> => call.value = "S"
              /\ b = <<a[1], a[2] + 1>> => call.value = "E"
              /\ b = <<a[1], a[2] - 1>> => call.value = "W"
              /\ Opposite(call.value) = Between(b, a)
    /\ call.op = "opposite" =>
          /\ call.value = (CASE call.args[1] = "N" -> "S" [] call.args[1] = "S" -> "N"
                             [] call.args[1] = "E" -> "W" [] call.args[1] = "W" -> "E")
          /\ Opposite(call.value) = call.args[1]

C14_Witness ==
    /\ call.op = "between" /\ call.value = "N"
    /\ width >= 2 /\ height >= 2

\* C16: get_cell(row, column), maze[row, column] and neighbors(row, column)
\* end with ValueError when row is outside [0, height) or column outside
\* [0, width), negative values included; otherwise get_cell and maze[...]
\* return the cell at (row, column) and neighbors returns exactly the cells
\* of the grid at Manhattan distance 1 from it, whichever walls are open.
C16_CoordinatesChecked ==
    call.op \in {"get_cell", "getitem", "neighbors"} =>
        LET at == <<call.args[1], call.args[2]>>
        IN  IF at \notin InBounds
            THEN call.result = "ValueError"
            ELSE /\ call.result = "ok"
                 /\ call.op # "neighbors" => call.value = at
                 /\ call.op = "neighbors" =>
                       call.value = {c \in InBounds : Manhattan(c, at) = 1}

C16_Witness ==
    /\ call.op = "neighbors" /\ call.result = "ok"
    /\ Cardinality(call.value) = 3
    /\ \E c \in call.value : run.walls[c] # {}

(***************************************************************************)
(* Two generations, one after the other, by the same generator on blank    *)
(* grids of the same size: `run` is the first and `plain` the second.      *)
(* The second is given the values the random-number source gave the        *)
(* first, which `call` keeps; the order in which a set of cells yields its *)
(* elements is not drawn from that source, and each generation has its     *)
(* own.                                                                    *)
(***************************************************************************)
TwinInit ==
    /\ GraphIdle /\ NoCalls
    /\ \E wh \in Sizes : width = wh[1] /\ height = wh[2]
    /\ graph = GridGraph(width, height)
    /\ generator \in {"dfs", "prims"}
    /\ event_listener = "none"
    /\ run = NewRun(width, height)
    /\ plain = run
    /\ solver = NewSolver

\* the generation that is under way
Active == IF run.status = "done" THEN plain ELSE run

\* the generation under way moves on to `r`
Advance(r) ==
    IF run.status = "done" THEN plain' = r /\ UNCHANGED run
    ELSE run' = r /\ UNCHANGED plain

TwinFixed ==
    UNCHANGED <<width, height, graph, generator, event_listener, solver, parent, gvars>>

TwinDfsGenerateStart ==
    /\ generator = "dfs" /\ Active.status = "new"
    /\ Advance(DfsGenerateBegin(Active))
    /\ UNCHANGED call /\ TwinFixed

TwinDfsGenerate ==
    /\ generator = "dfs" /\ Active.status = "running" /\ Active.stack # <<>>
    /\ LET cell == Active.stack[Len(Active.stack)]
       IN  \E order \in (IF cell \in Active.visited THEN {<<>>}
                         ELSE PushOrders(graph, cell, Active.visited \cup {cell})) :
               Advance(DfsGenerateStep(Active, order, "none", FALSE))
    /\ UNCHANGED call /\ TwinFixed

\* the first generation draws the row and the column of its start cell; the
\* second is given the same two values
TwinPrimsGenerateStart ==
    /\ generator = "prims" /\ Active.status = "new"
    /\ \E row \in Randrange(height), column \in Randrange(width) :
           /\ run.status = "done" => call.value = <<row, column>>
           /\ call' = [op |-> "randrange", args |-> <<height, width>>, result |-> "ok",
                       value |-> <<row, column>>, before |-> <<>>]
           /\ Advance(PrimsGenerateBegin(Active, row, column, "none", FALSE))
    /\ TwinFixed

TwinPrimsGenerate ==
    /\ generator = "prims" /\ Active.status = "running" /\ Active.frontier # {}
    /\ \E next_cell \in Active.frontier :
           \E neighbor \in (IF IncludedNeighbors(Active, next_cell) = {}
                            THEN {"StopIteration"}
                            ELSE IncludedNeighbors(Active, next_cell)) :
               Advance(PrimsGenerateStep(Active, next_cell, neighbor, "none", FALSE, FALSE))
    /\ UNCHANGED call /\ TwinFixed

TwinGenerateReturn ==
    /\ Active.status = "running"
    /\ generator = "dfs" => Active.stack = <<>>
    /\ generator = "prims" => Active.frontier = {}
    /\ Advance(GenerateEnd(Active))
    /\ UNCHANGED call /\ TwinFixed

TwinNext ==
    \/ TwinDfsGenerateStart
    \/ TwinDfsGenerate
    \/ TwinPrimsGenerateStart
    \/ TwinPrimsGenerate
    \/ TwinGenerateReturn

TwinSpec == TwinInit /\ [][TwinNext]_vars

(***************************************************************************)
(* Claims about two generations from the same random values.               *)
(***************************************************************************)
\* C20: two generations by the same generator on blank grids of the same
\* size that are given the same values by the random-number source end
\* with the same open walls.
C20_SameSeedSameMaze ==
    (run.status = "done" /\ plain.status = "done") => plain.walls = run.walls

(***************************************************************************)
(* Claims about Wilson's generator.                                       *)
(***************************************************************************)
\* the cells already in the tree
Visited == Cells \ run.unvisited

\* C19: in Wilson's generator the walk never contains a cell twice and its
\* consecutive cells are grid neighbours; of its cells only the last can
\* be in the tree, so that when it stops only its last cell is; in every
\* state, after each carving included, the open walls are symmetric, form
\* no cycle and join exactly the cells of the tree; and when no cell is
\* unvisited the open walls form a spanning tree of the grid.
C19_WilsonsLoopErased ==
    (generator = "wilsons" /\ run.status # "new") =>
        /\ run.status \in {"running", "done"}
        /\ NoDuplicates(run.walk)
        /\ \A i \in 1..(Len(run.walk) - 1) :
              /\ run.walk[i] \in run.unvisited
              /\ Manhattan(run.walk[i], run.walk[i + 1]) = 1
        /\ Acyclic(run.walls)
        /\ Cardinality(OpenPairs(run.walls)) = Cardinality(Visited) - 1
        /\ OpenWallCount(run.walls) = 2 * (Cardinality(Visited) - 1)
        /\ \A c \in Visited : Reachable(OpenGraph(run.walls), c) = Visited
        /\ run.unvisited = {} => SpanningTree(run.walls)

C19_Witness ==
    /\ generator = "wilsons" /\ run.status = "done"
    /\ run.iterations >= 2
    /\ width >= 2 /\ height >= 2

(***************************************************************************)
(* Claims about the Graph.                                                 *)
(***************************************************************************)
TraversalEnded == tstatus \notin {"idle", "running"} /\ tstart \in DOMAIN adjacencies

\* C8: a traversal from a registered start vertex ends normally, having
\* invoked visit exactly once on every vertex reachable from the start and
\* on no other vertex, the start vertex first.
C8_TraversalVisitsReachableOnce ==
    TraversalEnded =>
        /\ tstatus = "done"
        /\ NoDuplicates(visits)
        /\ SeqToSet(visits) = Reachable(adjacencies, tstart)
        /\ visits[1] = tstart

\* C9: every vertex that appears in an adjacency set is a registered vertex.
C9_AdjacentVerticesRegistered ==
    \A v \in DOMAIN adjacencies : adjacencies[v] \subseteq DOMAIN adjacencies

\* C10: in a bidirectional graph has_edge(a, b) = has_edge(b, a) for all
\* registered vertices a and b.
C10_BidirectionalSymmetric ==
    bidirectional =>
        \A a, b \in DOMAIN adjacencies :
            HasEdge(adjacencies, a, b).value = HasEdge(adjacencies, b, a).value

\* C11: every Graph operation given a vertex that is not registered ends
\* with ValueError and leaves the vertices and the adjacency sets as they
\* were: neighbors, remove_vertex, and add_edge, remove_edge and has_edge
\* with the unregistered vertex on either side; a traversal started at an
\* unregistered vertex ends with ValueError without invoking visit.
C11_UnregisteredVertexRejected ==
    /\ \A v \in Vertex \ DOMAIN adjacencies :
          /\ Neighbors(adjacencies, v).result = "ValueError"
          /\ RemoveVertex(adjacencies, v, <<>>) =
                 [adj |-> adjacencies, result |-> "ValueError"]
          /\ \A u \in Vertex :
                /\ AddEdge(adjacencies, bidirectional, v, u) =
                       [adj |-> adjacencies, result |-> "ValueError"]
                /\ AddEdge(adjacencies, bidirectional, u, v) =
                       [adj |-> adjacencies, result |-> "ValueError"]
                /\ RemoveEdge(adjacencies, bidirectional, v, u) =
                       [adj |-> adjacencies, result |-> "ValueError"]
                /\ RemoveEdge(adjacencies, bidirectional, u, v) =
                       [adj |-> adjacencies, result |-> "ValueError"]
                /\ HasEdge(adjacencies, v, u).result = "ValueError"
                /\ HasEdge(adjacencies, u, v).result = "ValueError"
    /\ (tstatus # "idle" /\ tstart \notin DOMAIN adjacencies) =>
          /\ tstatus = "ValueError"
          /\ visits = <<>>
          /\ queue = <<>> /\ stack = <<>>

C11_Witness ==
    /\ tstatus = "ValueError" /\ tstart \notin DOMAIN adjacencies
    /\ result = "ValueError" /\ nops > 0
    /\ \E v \in DOMAIN adjacencies : adjacencies[v] # {}

====
